---- MODULE Spec2Model ----
(***************************************************************************)
(* RESTaurant-cli: the request-collection execution engine.                *)
(*                                                                         *)
(* Two variants of the engine live in the repository:                      *)
(*   restaurant  src/restaurant/schema.py + src/restaurant/__main__.py     *)
(*               (HttpSetup, RequestCollection.execute, the run command)   *)
(*   rqstr       src/rqstr/schema/request.py                               *)
(*               (RequestData, RequestCollection.collect, benchmark)       *)
(* Spec is the restaurant run command, SpecRqstr is rqstr's collect, and   *)
(* SpecChecks evaluates the is_success flag of a received response.        *)
(*                                                                         *)
(* Python values: None is the empty sequence and a present value x is      *)
(* <<x>>; a dict is a sequence of <<key, value>> pairs with unique keys in *)
(* insertion order; httpx.Headers is a sequence of <<name, value>> pairs.  *)
(* Header names are kept in one spelling, so httpx's case-insensitive      *)
(* lookup is equality of names.                                            *)
(***************************************************************************)
EXTENDS Integers, Sequences, FiniteSets, TLC

VARIABLES
    \* ---- restaurant: the run command (src/restaurant/__main__.py)
    nfiles,            \* len(input_)
    no_fail_on_error,  \* the --no-fail-on-error flag
    i,                 \* files already processed by the for loop
    failed,            \* run's local `failed`
    pc,                \* where run is: "loop", "execute", "results", "exited"
    exit_code,         \* None until the process has exited
    printed,           \* the "got result ..." lines printed so far
    \* ---- restaurant: one RequestCollection.execute (src/restaurant/schema.py)
    rc,                \* the loaded RequestCollection, None before the first load
    client,            \* the httpx.AsyncClient of the execution: "none", "open", "closed"
    tasks,             \* one send_with coroutine per request, in declaration order
    results,           \* what execute returned, None while it has not
    \* ---- rqstr: one RequestCollection.collect (src/rqstr/schema/request.py)
    collection,        \* the RequestCollection collect runs on
    state,             \* collect: "Idle", "Running", "Completed", "Aborted"
    _headers,          \* collect's local dict, handed to every send_with
    cur,               \* the request the dict comprehension is at
    attempts,          \* the client.send calls send_with has gathered
    wire,              \* the httpx request built for each request so far
    requests,          \* collect's local `requests`: one list of ResponseData per request
    raised,            \* the exception that left collect, None if none did
    \* ---- a received response and the is_success flag of its result
    response,          \* the httpx.Response: its status_code
    tests,             \* the AssertDef the result carries
    flag               \* the result's is_success, None until it is read

run_vars == <<nfiles, no_fail_on_error, i, failed, pc, exit_code, printed>>
exec_vars == <<rc, client, tasks, results>>
rqstr_vars == <<collection, state, _headers, cur, attempts, wire, requests, raised>>
check_vars == <<response, tests, flag>>

----------------------------------------------------------------------------
(* Bounds of the model.                                                    *)

MaxFiles == 2
MaxRequests == 2
MaxElapsed == 2
MaxBenchmark == 2

----------------------------------------------------------------------------
(* Python values.                                                          *)

None == <<>>
Some(x) == <<x>>

RECURSIVE DictHas(_, _)
DictHas(d, k) ==
    IF d = <<>> THEN FALSE
    ELSE IF Head(d)[1] = k THEN TRUE ELSE DictHas(Tail(d), k)

RECURSIVE DictReplace(_, _, _)
DictReplace(d, k, v) ==
    IF d = <<>> THEN <<>>
    ELSE IF Head(d)[1] = k THEN <<<<k, v>>>> \o Tail(d)
    ELSE <<Head(d)>> \o DictReplace(Tail(d), k, v)

\* d[k] = v on a Python dict: the value is replaced where the key stands, a
\* new key goes last.
DictSet(d, k, v) ==
    IF DictHas(d, k) THEN DictReplace(d, k, v) ELSE Append(d, <<k, v>>)

RECURSIVE HeadersWithout(_, _)
HeadersWithout(h, d) ==
    IF h = <<>> THEN <<>>
    ELSE IF DictHas(d, Head(h)[1]) THEN HeadersWithout(Tail(h), d)
    ELSE <<Head(h)>> \o HeadersWithout(Tail(h), d)

\* httpx.Headers.update, as client.build_request applies it to the client's
\* headers: every name the argument carries is popped from the client's
\* headers, then the argument's entries are appended.
merge_headers(client_headers, headers) ==
    HeadersWithout(client_headers, headers) \o headers

HeaderValues(h, name) ==
    { h[n][2] : n \in { m \in 1..Len(h) : h[m][1] = name } }

----------------------------------------------------------------------------
(* Auth (src/restaurant/schema.py).                                        *)

\* base64.b64encode(f"{username}:{password}".encode()).decode(), tabulated
\* for the credentials of the model.
b64encode(username, password) ==
    CASE username = "alice" /\ password = "pw1" -> "YWxpY2U6cHcx"
      [] username = "alice" /\ password = "pw2" -> "YWxpY2U6cHcy"

AuthBasic(username, password) ==
    [type |-> "basic", username |-> username, secret |-> password]

AuthBearerToken(token) ==
    [type |-> "bearer", username |-> "", secret |-> token]

\* f"Bearer {token}", tabulated for the tokens of the model.
bearer_header(token) ==
    CASE token = "tok1" -> "Bearer tok1"
      [] token = "tok2" -> "Bearer tok2"

\* f"Basic {encoded}"
basic_header(a) ==
    CASE b64encode(a.username, a.secret) = "YWxpY2U6cHcx" -> "Basic YWxpY2U6cHcx"
      [] b64encode(a.username, a.secret) = "YWxpY2U6cHcy" -> "Basic YWxpY2U6cHcy"

header(a) ==
    IF a.type = "basic" THEN basic_header(a) ELSE bearer_header(a.secret)

----------------------------------------------------------------------------
(* The inputs of the model: what a collection file may decode to, and how  *)
(* the network treats one sent request.                                    *)

ExtraHeaderChoices == { <<>>, <<<<"X-Env", "req">>>> }
CollectionHeaderChoices == { <<>>, <<<<"X-Env", "coll">>>> }
AuthChoices == { None, Some(AuthBasic("alice", "pw1")), Some(AuthBearerToken("tok1")) }
TimeoutChoices == { None, Some(1) }
StatusCodes == { 200, 500 }

\* HttpSetup as model_validate builds it: _results and _errors start empty.
HttpSetups ==
    [ extra_headers : ExtraHeaderChoices,
      auth : AuthChoices,
      timeout_s : TimeoutChoices,
      _results : { <<>> },
      _errors : { <<>> } ]

RequestCollections ==
    [ headers : CollectionHeaderChoices,
      requests : UNION { [1..n -> HttpSetups] : n \in 0..MaxRequests } ]

\* The network's treatment of one sent request: the host refuses the
\* connection, or the server answers status_code after elapsed seconds.
Refused == [reachable |-> FALSE, status_code |-> 0, elapsed |-> 0]
Nets ==
    { Refused } \cup
    [ reachable : { TRUE }, status_code : StatusCodes, elapsed : 1..MaxElapsed ]

----------------------------------------------------------------------------
(* httpx, as the engine uses it.                                           *)

\* httpx.AsyncClient's default timeout, which USE_CLIENT_DEFAULT selects.
DefaultTimeout == 5

\* `timeout_s or httpx.USE_CLIENT_DEFAULT`: None and 0 are falsy.
timeout_or_default(timeout_s) ==
    IF timeout_s = None \/ timeout_s = Some(0) THEN DefaultTimeout ELSE timeout_s[1]

\* client.build_request(headers=..., timeout=...)
build_request(client_headers, headers, timeout_s) ==
    [ headers |-> merge_headers(client_headers, headers),
      timeout |-> timeout_or_default(timeout_s) ]

HttpResult(status_code, elapsed) ==
    [kind |-> "HttpResult", status_code |-> status_code, elapsed |-> elapsed, error |-> ""]

HttpResultError(error) ==
    [kind |-> "HttpResultError", status_code |-> 0, elapsed |-> 0, error |-> error]

\* What `await client.send(request)` comes to: a response, or the
\* httpx.RequestError it raises (the request's timeout is a transport limit).
client_send(request, net) ==
    IF ~net.reachable THEN [raised |-> "ConnectError", status_code |-> 0, elapsed |-> 0]
    ELSE IF net.elapsed > request.timeout
         THEN [raised |-> "ReadTimeout", status_code |-> 0, elapsed |-> 0]
    ELSE [raised |-> "", status_code |-> net.status_code, elapsed |-> net.elapsed]

\* httpx.Response.is_success, which HttpResult.is_success returns.
is_success(result) == 200 <= result.status_code /\ result.status_code <= 299

----------------------------------------------------------------------------
(* restaurant: HttpSetup.send_with and RequestCollection.execute.          *)

\* One send_with coroutine: logged is what its logger.debug call wrote.
PendingTask ==
    [pc |-> "pending", request |-> None, net |-> None, result |-> None, logged |-> None]

\* repr of the auth field: pydantic shows a SecretStr as asterisks and a str
\* as it is.
repr_auth(auth) ==
    IF auth = None THEN None
    ELSE IF auth[1].type = "basic"
         THEN Some([auth[1] EXCEPT !.secret = "**********"])
    ELSE auth

\* str(self) of an HttpSetup, which `logger.debug("Sending request {}", self)`
\* writes: the model's fields with their values (here those that carry
\* headers and credentials).
HttpSetup_str(setup) ==
    [extra_headers |-> setup.extra_headers, auth |-> repr_auth(setup.auth)]

\* `if self.auth: self.extra_headers["Authorization"] = self.auth.header`
with_auth_header(setup) ==
    IF setup.auth # None
    THEN DictSet(setup.extra_headers, "Authorization", header(setup.auth[1]))
    ELSE setup.extra_headers

\* The try/except of send_with: the response becomes an HttpResult, an
\* httpx.RequestError becomes an HttpResultError.
send_with_result(sent) ==
    IF sent.raised = "" THEN HttpResult(sent.status_code, sent.elapsed)
    ELSE HttpResultError(sent.raised)

\* record_result with the except branch's append lost.
record_result_drops_errors(setup, result) ==
    IF result.kind = "HttpResult"
    THEN [setup EXCEPT !._results = Append(@, result)]
    ELSE setup

\* `self._results.append(result)` in the try branch,
\* `self._errors.append(result)` in the except branch.
record_result(setup, result) ==
    IF result.kind = "HttpResult"
    THEN [setup EXCEPT !._results = Append(@, result)]
    ELSE [setup EXCEPT !._errors = Append(@, result)]

\* send_with up to `await client.send(request)`. asyncio starts the gathered
\* coroutines in the order collect listed them.
send_with_start(k) ==
    /\ pc = "execute"
    /\ client = "open"
    /\ k \in 1..Len(tasks)
    /\ tasks[k].pc = "pending"
    /\ \A m \in 1..(k - 1) : tasks[m].pc # "pending"
    /\ LET setup == rc[1].requests[k]
           hdrs == with_auth_header(setup)
           request == build_request(rc[1].headers, hdrs, setup.timeout_s)
       IN /\ rc' = Some([rc[1] EXCEPT !.requests[k].extra_headers = hdrs])
          /\ tasks' = [tasks EXCEPT ![k] =
                          [pc |-> "awaiting", request |-> Some(request),
                           net |-> None, result |-> None,
                           logged |-> Some(HttpSetup_str(
                               [setup EXCEPT !.extra_headers = hdrs]))]]
    /\ UNCHANGED <<client, results>>
    /\ UNCHANGED run_vars
    /\ UNCHANGED rqstr_vars
    /\ UNCHANGED check_vars

\* send_with from the end of `await client.send(request)` to its return.
send_with_finish(k) ==
    /\ pc = "execute"
    /\ k \in 1..Len(tasks)
    /\ tasks[k].pc = "awaiting"
    /\ \E net \in Nets :
          LET sent == client_send(tasks[k].request[1], net)
              result == send_with_result(sent)
              setup == rc[1].requests[k]
          IN /\ rc' = Some([rc[1] EXCEPT !.requests[k] = record_result(setup, result)])
             /\ tasks' = [tasks EXCEPT ![k] =
                             [pc |-> "done", request |-> tasks[k].request,
                              net |-> Some(net), result |-> Some(result),
                              logged |-> tasks[k].logged]]
    /\ UNCHANGED <<client, results>>
    /\ UNCHANGED run_vars
    /\ UNCHANGED rqstr_vars
    /\ UNCHANGED check_vars

\* asyncio.gather has every result: the `async with` block closes the client
\* and execute returns the results in the order of the requests.
execute_return ==
    /\ pc = "execute"
    /\ \A k \in 1..Len(tasks) : tasks[k].pc = "done"
    /\ results' = Some([k \in 1..Len(tasks) |-> tasks[k].result[1]])
    /\ client' = "closed"
    /\ pc' = "results"
    /\ UNCHANGED <<rc, tasks>>
    /\ UNCHANGED <<nfiles, no_fail_on_error, i, failed, exit_code, printed>>
    /\ UNCHANGED rqstr_vars
    /\ UNCHANGED check_vars

----------------------------------------------------------------------------
(* restaurant: the run command.                                            *)

\* `rc = RequestCollection.from_yml_file(collection_file)` and
\* `rc.execute()` up to its await: the client is created and collect lists
\* one send_with coroutine per request.
run_load ==
    /\ pc = "loop"
    /\ i < nfiles
    /\ \E c \in RequestCollections :
          /\ rc' = Some(c)
          /\ tasks' = [k \in 1..Len(c.requests) |-> PendingTask]
    /\ client' = "open"
    /\ results' = None
    /\ pc' = "execute"
    /\ UNCHANGED <<nfiles, no_fail_on_error, i, failed, exit_code, printed>>
    /\ UNCHANGED rqstr_vars
    /\ UNCHANGED check_vars

\* failed_after with an empty result list taken for a failure.
RECURSIVE failed_after_empty_fails(_, _)
failed_after_empty_fails(f, rs) ==
    IF rs = <<>> THEN TRUE
    ELSE IF Len(rs) = 1 THEN Head(rs).kind = "HttpResultError"
    ELSE failed_after_empty_fails(f, Tail(rs))

\* `failed` after the `for result in results` loop.
RECURSIVE failed_after(_, _)
failed_after(f, rs) ==
    IF rs = <<>> THEN f
    ELSE failed_after(Head(rs).kind = "HttpResultError", Tail(rs))

\* The line the loop prints for one result: result.error or
\* result.status_code.
got_result(result) ==
    [error |-> result.error, status_code |-> result.status_code]

\* The `for result in results` loop and the step to the next file.
run_results ==
    /\ pc = "results"
    /\ failed' = failed_after(failed, results[1])
    /\ printed' = printed \o [n \in 1..Len(results[1]) |-> got_result(results[1][n])]
    /\ i' = i + 1
    /\ pc' = "loop"
    /\ UNCHANGED <<nfiles, no_fail_on_error, exit_code>>
    /\ UNCHANGED exec_vars
    /\ UNCHANGED rqstr_vars
    /\ UNCHANGED check_vars

\* final_status with the no_fail_on_error branch lost.
final_status_without_no_fail(f, no_fail) ==
    IF f THEN 1 ELSE 0

\* The exit status after "Final Status": exit(0), exit(1), or the return
\* of run, with which the process ends with status 0.
final_status(f, no_fail) ==
    IF f THEN (IF no_fail THEN 0 ELSE 1) ELSE 0

run_exit ==
    /\ pc = "loop"
    /\ i = nfiles
    /\ exit_code' = Some(final_status(failed, no_fail_on_error))
    /\ pc' = "exited"
    /\ UNCHANGED <<nfiles, no_fail_on_error, i, failed, printed>>
    /\ UNCHANGED exec_vars
    /\ UNCHANGED rqstr_vars
    /\ UNCHANGED check_vars

----------------------------------------------------------------------------
(* rqstr: RequestData and RequestCollection.collect.                       *)

RequestAuthChoices == { None, Some(AuthBearerToken("tok1")) }
CollectionAuthChoices == { None, Some(AuthBasic("alice", "pw1")) }
BenchmarkChoices == { None } \cup { Some(n) : n \in 0..MaxBenchmark }

RequestDatas ==
    [ headers : ExtraHeaderChoices,
      auth : RequestAuthChoices,
      timeout_s : TimeoutChoices,
      benchmark : BenchmarkChoices ]

RqstrRequestCollections ==
    [ headers : CollectionHeaderChoices,
      auth : CollectionAuthChoices,
      requests : UNION { [1..n -> RequestDatas] : n \in 0..MaxRequests } ]

RECURSIVE DictUpdate(_, _)
DictUpdate(d, e) ==
    IF e = <<>> THEN d
    ELSE DictUpdate(DictSet(d, Head(e)[1], Head(e)[2]), Tail(e))

\* HasHeaders.all_headers(extra): a new dict of the extra headers with the
\* object's own headers laid over them.
all_headers(own, extra) == DictUpdate(extra, own)

\* `self.benchmark or 1`: None and 0 are falsy.
benchmark_or_1(benchmark) ==
    IF benchmark = None \/ benchmark = Some(0) THEN 1 ELSE benchmark[1]

\* to_httpx_request's `headers` after `if not headers: headers = {}` and the
\* auth header: the caller's dict itself unless that dict was empty.
headers_with_auth(self, headers) ==
    IF self.auth # None
    THEN DictSet(headers, "Authorization", header(self.auth[1]))
    ELSE headers

\* to_httpx_request(client, headers): the request, and the caller's dict as
\* the call leaves it (an empty dict is replaced by a fresh one, so it stays
\* empty; any other dict is written in place).
to_httpx_request(self, client_headers, headers) ==
    [ request |-> build_request(client_headers,
                                all_headers(self.headers, headers_with_auth(self, headers)),
                                self.timeout_s),
      headers |-> IF headers = <<>> THEN headers ELSE headers_with_auth(self, headers) ]

ResponseData(r) == [status_code |-> r.status_code, elapsed |-> r.elapsed]

\* One launched send: rank is its place in the order in which the sends of
\* the gather ended, 0 while it is in flight.
AwaitingAttempt ==
    [pc |-> "awaiting", net |-> None, raised |-> "", response |-> None, rank |-> 0]

\* The sends of the gather that have ended.
ended(atts) == { a \in 1..Len(atts) : atts[a].pc = "done" }

\* gathered_responses with the responses in the order the sends ended in.
responses_as_completed(atts) ==
    [n \in 1..Len(atts) |->
        atts[CHOOSE a \in 1..Len(atts) : atts[a].rank = n].response[1]]

\* What `await asyncio.gather(...)` returns and the list comprehension
\* wraps: one ResponseData per send, in the order the sends were launched.
gathered_responses(atts) ==
    [a \in 1..Len(atts) |-> atts[a].response[1]]

\* collect up to the dict comprehension: the client is created with the
\* collection's headers and _headers is computed once.
collect_enter ==
    /\ state = "Idle"
    /\ collection # None
    /\ client' = "open"
    /\ _headers' = all_headers(collection[1].headers, <<>>)
    /\ cur' = 1
    /\ state' = "Running"
    /\ UNCHANGED <<collection, attempts, wire, requests, raised>>
    /\ UNCHANGED run_vars
    /\ UNCHANGED <<rc, tasks, results>>
    /\ UNCHANGED check_vars

\* `await v.send_with(client, headers=_headers)` up to the gather: the
\* request is built once and `benchmark or 1` sends of it are launched.
RequestData_send_with_start ==
    /\ state = "Running"
    /\ cur \in 1..Len(collection[1].requests)
    /\ attempts = <<>>
    /\ LET self == collection[1].requests[cur]
           built == to_httpx_request(self, collection[1].headers, _headers)
       IN /\ _headers' = built.headers
          /\ wire' = Append(wire, built.request)
          /\ attempts' = [a \in 1..benchmark_or_1(self.benchmark) |-> AwaitingAttempt]
    /\ UNCHANGED <<collection, state, cur, requests, raised, client>>
    /\ UNCHANGED run_vars
    /\ UNCHANGED <<rc, tasks, results>>
    /\ UNCHANGED check_vars

\* One `client.send(request)` of the gather ends: with a response, or with
\* the httpx.RequestError it raises.
attempt_finish(a) ==
    /\ state = "Running"
    /\ a \in 1..Len(attempts)
    /\ attempts[a].pc = "awaiting"
    /\ \E net \in Nets :
          LET out == client_send(wire[cur], net)
          IN attempts' = [attempts EXCEPT ![a] =
                 [pc |-> "done", net |-> Some(net), raised |-> out.raised,
                  response |-> IF out.raised = "" THEN Some(ResponseData(out)) ELSE None,
                  rank |-> Cardinality(ended(attempts)) + 1]]
    /\ UNCHANGED <<collection, state, _headers, cur, wire, requests, raised, client>>
    /\ UNCHANGED run_vars
    /\ UNCHANGED <<rc, tasks, results>>
    /\ UNCHANGED check_vars

\* The gather has every response: send_with returns one ResponseData per
\* response, in the order the sends were launched, and the comprehension
\* moves to the next request.
RequestData_send_with_return ==
    /\ state = "Running"
    /\ attempts # <<>>
    /\ \A a \in 1..Len(attempts) : attempts[a].pc = "done" /\ attempts[a].raised = ""
    /\ requests' = Append(requests, gathered_responses(attempts))
    /\ cur' = cur + 1
    /\ attempts' = <<>>
    /\ UNCHANGED <<collection, state, _headers, wire, raised, client>>
    /\ UNCHANGED run_vars
    /\ UNCHANGED <<rc, tasks, results>>
    /\ UNCHANGED check_vars

\* A send of the gather raised: nothing in send_with or collect catches it,
\* so it leaves the gather, send_with, the `async with` block (which closes
\* the client) and collect.
RequestData_send_with_raise ==
    /\ state = "Running"
    /\ \E a \in 1..Len(attempts) :
          /\ attempts[a].pc = "done"
          /\ attempts[a].raised # ""
          /\ raised' = Some(attempts[a].raised)
    /\ client' = "closed"
    /\ state' = "Aborted"
    /\ UNCHANGED <<collection, _headers, cur, attempts, wire, requests>>
    /\ UNCHANGED run_vars
    /\ UNCHANGED <<rc, tasks, results>>
    /\ UNCHANGED check_vars

\* The comprehension is through: the `async with` block closes the client
\* and collect returns `requests`.
collect_return ==
    /\ state = "Running"
    /\ cur = Len(collection[1].requests) + 1
    /\ client' = "closed"
    /\ state' = "Completed"
    /\ UNCHANGED <<collection, _headers, cur, attempts, wire, requests, raised>>
    /\ UNCHANGED run_vars
    /\ UNCHANGED <<rc, tasks, results>>
    /\ UNCHANGED check_vars

----------------------------------------------------------------------------

vars == <<nfiles, no_fail_on_error, i, failed, pc, exit_code, printed,
          rc, client, tasks, results,
          collection, state, _headers, cur, attempts, wire, requests, raised,
          response, tests, flag>>

\* No result's is_success is being read.
check_idle ==
    /\ response = None
    /\ tests = None
    /\ flag = None

\* No rqstr collection is in play.
rqstr_idle ==
    /\ collection = None
    /\ state = "Idle"
    /\ _headers = <<>>
    /\ cur = 0
    /\ attempts = <<>>
    /\ wire = <<>>
    /\ requests = <<>>
    /\ raised = None

Init ==
    /\ rqstr_idle
    /\ check_idle
    /\ nfiles \in 0..MaxFiles
    /\ no_fail_on_error \in BOOLEAN
    /\ i = 0
    /\ failed = FALSE
    /\ pc = "loop"
    /\ exit_code = None
    /\ printed = <<>>
    /\ rc = None
    /\ client = "none"
    /\ tasks = <<>>
    /\ results = None

Next ==
    \/ run_load
    \/ \E k \in 1..MaxRequests : send_with_start(k)
    \/ \E k \in 1..MaxRequests : send_with_finish(k)
    \/ execute_return
    \/ run_results
    \/ run_exit

Spec == Init /\ [][Next]_vars

\* No restaurant run is in play.
run_idle ==
    /\ nfiles = 0
    /\ no_fail_on_error = FALSE
    /\ i = 0
    /\ failed = FALSE
    /\ pc = "loop"
    /\ exit_code = None
    /\ printed = <<>>
    /\ rc = None
    /\ tasks = <<>>
    /\ results = None

InitRqstr ==
    /\ run_idle
    /\ check_idle
    /\ client = "none"
    /\ collection \in { Some(c) : c \in RqstrRequestCollections }
    /\ state = "Idle"
    /\ _headers = <<>>
    /\ cur = 0
    /\ attempts = <<>>
    /\ wire = <<>>
    /\ requests = <<>>
    /\ raised = None

NextRqstr ==
    \/ collect_enter
    \/ RequestData_send_with_start
    \/ \E a \in 1..MaxBenchmark : attempt_finish(a)
    \/ RequestData_send_with_return
    \/ RequestData_send_with_raise
    \/ collect_return

SpecRqstr == InitRqstr /\ [][NextRqstr]_vars

----------------------------------------------------------------------------
(* The is_success flag of the result of a received response.               *)

\* The status codes a response may carry.
ResponseStatusCodes == 100..599

\* AssertDef: the status the response is expected to have, None if none is
\* configured.
AssertDefs == [ expected_status : { None, Some(200), Some(404), Some(500) } ]

\* HttpResult(response=response, tests=self.assert_).is_success and
\* ResponseData.is_success: `return self.response.is_success`.
HttpResult_is_success(result) == is_success(result.response)

read_is_success ==
    /\ flag = None
    /\ flag' = Some(HttpResult_is_success([response |-> response[1], tests |-> tests[1]]))
    /\ UNCHANGED <<response, tests>>
    /\ UNCHANGED run_vars
    /\ UNCHANGED exec_vars
    /\ UNCHANGED rqstr_vars

InitChecks ==
    /\ run_idle
    /\ rqstr_idle
    /\ client = "none"
    /\ response \in { Some([status_code |-> c]) : c \in ResponseStatusCodes }
    /\ tests \in { Some(t) : t \in AssertDefs }
    /\ flag = None

NextChecks == read_is_success

SpecChecks == InitChecks /\ [][NextChecks]_vars

----------------------------------------------------------------------------
(* The claims.                                                             *)

\* A printed result line is a passing result: a response was received (no
\* error) and its status check holds.
line_passed(line) == line.error = "" /\ is_success(line)

\* C1: when the run command has finished, the overall verdict is 'passed'
\* (failed = FALSE) if and only if every result of every request of every
\* processed collection passed.
C1_VerdictPassedIffEveryResultPassed ==
    pc = "exited" =>
        ((~failed) <=> \A n \in 1..Len(printed) : line_passed(printed[n]))

\* C2: when collect has ended on a collection of two or more requests,
\* every request has been dispatched, and every request other than the one
\* whose send failed at the transport layer has its own list of results.
C2_SiblingsDispatchedAndReported ==
    (state \in {"Completed", "Aborted"} /\ Len(collection[1].requests) >= 2) =>
        \A k \in 1..Len(collection[1].requests) :
            /\ k <= Len(wire)
            /\ (k # cur => k <= Len(requests))

\* C3: no transport-level failure of an attempt is thrown to the caller of
\* collect, and, a transport failure being the only failure of the model,
\* the runner is never Aborted.
C3_TransportErrorNeverThrown ==
    /\ raised \notin { Some("ConnectError"), Some("ReadTimeout") }
    /\ state # "Aborted"

\* The number of Results the spec gives a request whose repeat count is b.
expected_results(b) == IF b # None /\ b[1] >= 1 THEN b[1] ELSE 1

\* C4: every request whose dispatch has ended (returned, or ended the
\* execution) has exactly N results when its benchmark is N >= 1, and
\* exactly 1 when it is 0 or unset, whatever happened to its attempts.
C4_BenchmarkAttemptCount ==
    \A k \in 1..Len(wire) :
        (k < cur \/ state = "Aborted") =>
            /\ k <= Len(requests)
            /\ Len(requests[k]) = expected_results(collection[1].requests[k].benchmark)

\* C5: when the run command has finished and some attempt received a
\* response whose status check failed, the verdict is 'failed' and the exit
\* status is a failure (1, unless no_fail_on_error).
C5_FailedStatusCheckFailsRun ==
    (/\ pc = "exited"
     /\ \E n \in 1..Len(printed) : printed[n].error = "" /\ ~is_success(printed[n]))
    => (failed /\ (~no_fail_on_error => exit_code = Some(1)))

\* C6: the process exits with code 0 if the verdict is passed (failed =
\* FALSE) or no_fail_on_error is requested, and with code 1 otherwise; it
\* has no exit code before it exits.
C6_ExitContract ==
    /\ pc = "exited" =>
          exit_code = Some(IF (~failed) \/ no_fail_on_error THEN 0 ELSE 1)
    /\ pc # "exited" => exit_code = None

\* C6 witnessed: run has exited with code 1, the verdict failed and
\* no_fail_on_error not requested.
C6_Witness ==
    pc = "exited" /\ failed /\ ~no_fail_on_error /\ exit_code = Some(1)

\* The Authorization values the spec's auth resolution puts on the wire.
resolved_authorization(request_auth, collection_auth) ==
    IF request_auth # None THEN { header(request_auth[1]) }
    ELSE IF collection_auth # None THEN { header(collection_auth[1]) }
    ELSE {}

\* C7: every request sent carries the Authorization header of its own auth
\* if it declares one, else that of the collection's auth if the collection
\* declares one, else none.
C7_AuthResolution ==
    \A k \in 1..Len(wire) :
        HeaderValues(wire[k].headers, "Authorization") =
            resolved_authorization(collection[1].requests[k].auth, collection[1].auth)

\* Every entry of c and entry of r with the same name are both in w, the
\* entry of c before the entry of r.
additive(c, r, w) ==
    \A a \in 1..Len(c), b \in 1..Len(r) :
        c[a][1] = r[b][1] =>
            \E x, y \in 1..Len(w) : x < y /\ w[x] = c[a] /\ w[y] = r[b]

\* C8: the headers of every request built hold, for each name the
\* collection's headers and the request's headers share, both entries, the
\* collection's before the request's.
C8_HeaderMergeAdditive ==
    \A k \in 1..Len(tasks) :
        tasks[k].request # None =>
            additive(rc[1].headers, rc[1].requests[k].extra_headers,
                     tasks[k].request[1].headers)

\* C9: the is_success flag of a result is status_code = expected_status if
\* expected_status is configured, and 200 <= status_code < 300 if not.
C9_StatusCheck ==
    flag # None =>
        flag[1] = (IF tests[1].expected_status # None
                   THEN response[1].status_code = tests[1].expected_status[1]
                   ELSE 200 <= response[1].status_code /\ response[1].status_code < 300)

\* C10: an attempt the server answers, with timeout_s set and the answer
\* later than timeout_s, yields an HttpResult (a received response), never
\* an HttpResultError.
C10_SoftTimeoutIsAnAssertion ==
    \A k \in 1..Len(tasks) :
        (/\ tasks[k].pc = "done"
         /\ tasks[k].net[1].reachable
         /\ rc[1].requests[k].timeout_s # None
         /\ tasks[k].net[1].elapsed > rc[1].requests[k].timeout_s[1])
        => tasks[k].result[1].kind = "HttpResult"

\* C11: executing a collection with zero requests creates no send_with
\* task (no HTTP call is dispatched) and returns an empty result list with
\* the client closed; a run whose executions printed no result has the
\* verdict 'passed' and exits 0.
C11_EmptyCollection ==
    /\ (pc \in {"execute", "results"} /\ rc[1].requests = <<>>) => tasks = <<>>
    /\ (pc = "results" /\ rc[1].requests = <<>>) =>
          (results = Some(<<>>) /\ client = "closed")
    /\ (pc = "exited" /\ printed = <<>>) => (~failed /\ exit_code = Some(0))

\* C11 witnessed: run has exited after executing one collection, an empty
\* one, with the verdict 'passed'.
C11_Witness ==
    /\ pc = "exited"
    /\ i = 1
    /\ rc # None
    /\ rc[1].requests = <<>>
    /\ results = Some(<<>>)
    /\ ~failed
    /\ exit_code = Some(0)

\* C12: the client of a collection execution is open while any attempt of
\* the execution is in flight, and is closed once the execution has ended,
\* whether it completed or an exception left it.
C12_ClientLifecycle ==
    /\ (\E a \in 1..Len(attempts) : attempts[a].pc = "awaiting") => client = "open"
    /\ state \in {"Completed", "Aborted"} => client = "closed"
    /\ state = "Idle" => client = "none"

\* C13: while collect runs and some request of the collection has not been
\* dispatched yet, its dispatch can happen at once: it does not wait for the
\* attempts of the requests dispatched before it.
C13_DispatchIsConcurrent ==
    (state = "Running" /\ Len(wire) < Len(collection[1].requests)) =>
        ENABLED RequestData_send_with_start

\* C14: the attempts of one request are all in flight together from the
\* moment of the launch, and when send_with returns, the a-th result of the
\* request is the response to the a-th send launched, whatever the order in
\* which the sends ended.
C14_ResultsInLaunchOrder ==
    [][/\ (attempts = <<>> /\ attempts' # <<>>) =>
             (/\ Len(attempts') = benchmark_or_1(collection[1].requests[cur].benchmark)
              /\ \A a \in 1..Len(attempts') : attempts'[a].pc = "awaiting")
       /\ (Len(requests') = Len(requests) + 1) =>
             (/\ Len(requests'[cur]) = Len(attempts)
              /\ \A a \in 1..Len(attempts) :
                    /\ requests'[cur][a].status_code = attempts[a].net[1].status_code
                    /\ requests'[cur][a].elapsed = attempts[a].net[1].elapsed)]_vars

\* C14 witnessed: both sends of a request have been answered, the second
\* before the first and with another response, so send_with returns next.
C14_Witness ==
    /\ state = "Running"
    /\ Len(attempts) = 2
    /\ \A a \in 1..2 : attempts[a].pc = "done" /\ attempts[a].raised = ""
    /\ attempts[2].rank < attempts[1].rank
    /\ attempts[1].response # attempts[2].response
    /\ ENABLED RequestData_send_with_return

\* C15: what send_with logs of a request spec holds neither the password or
\* token of its auth nor the Authorization header value derived from it.
C15_CredentialsNeverLogged ==
    \A k \in 1..Len(tasks) :
        (tasks[k].logged # None /\ rc[1].requests[k].auth # None) =>
            /\ tasks[k].logged[1].auth[1].secret # rc[1].requests[k].auth[1].secret
            /\ header(rc[1].requests[k].auth[1]) \notin
                   HeaderValues(tasks[k].logged[1].extra_headers, "Authorization")

\* C16: no step of an execution (building, sending, finishing a request)
\* changes the collection's header map or the header map of any request of
\* the collection.
C16_HeadersNeverMutated ==
    [][pc = "execute" =>
          /\ rc'[1].headers = rc[1].headers
          /\ \A k \in 1..Len(rc[1].requests) :
                rc'[1].requests[k].extra_headers = rc[1].requests[k].extra_headers]_vars

\* C17: the request sent for each request of the collection is the one
\* built from the collection's headers and the request's own headers and
\* auth alone, whatever was dispatched before it; a request that declares no
\* auth carries no Authorization header.
C17_HeadersIndependentOfEarlierRequests ==
    \A k \in 1..Len(wire) :
        LET self == collection[1].requests[k]
        IN /\ wire[k] = to_httpx_request(self, collection[1].headers,
                                         all_headers(collection[1].headers, <<>>)).request
           /\ self.auth = None => HeaderValues(wire[k].headers, "Authorization") = {}

\* The last element of a list, None if it is empty.
latest(list) == IF list = <<>> THEN None ELSE Some(list[Len(list)])

\* C18: every HttpSetup has recorded each of its completed send_with calls
\* in exactly one of _results and _errors; and the list execute returns has
\* one entry per request of the collection, the k-th an HttpResult or an
\* HttpResultError and the one the k-th request recorded, whatever the order
\* in which the sends ended.
C18_OneResultPerRequest ==
    /\ rc # None =>
          /\ Len(tasks) = Len(rc[1].requests)
          /\ \A k \in 1..Len(tasks) :
                Len(rc[1].requests[k]._results) + Len(rc[1].requests[k]._errors)
                    = (IF tasks[k].pc = "done" THEN 1 ELSE 0)
    /\ results # None =>
          /\ Len(results[1]) = Len(rc[1].requests)
          /\ \A k \in 1..Len(results[1]) :
                /\ results[1][k].kind \in {"HttpResult", "HttpResultError"}
                /\ Some(results[1][k]) =
                       (IF results[1][k].kind = "HttpResult"
                        THEN latest(rc[1].requests[k]._results)
                        ELSE latest(rc[1].requests[k]._errors))

\* C18 witnessed: execute has returned for a collection of two requests, an
\* HttpResultError for the first and an HttpResult for the second.
C18_Witness ==
    /\ results # None
    /\ Len(results[1]) = 2
    /\ results[1][1].kind = "HttpResultError"
    /\ results[1][2].kind = "HttpResult"

====
